---- MODULE Spec2Model ----
(***************************************************************************)
(* State-machine model of package stratus (src/db.go): the process-wide    *)
(* *gorm.DB handle `db`, Connect (modelled statement by statement) and     *)
(* GetInstance.                                                            *)
(*                                                                         *)
(* Calls into other packages (os.Stat, pgxv5.RegisterDriver, sql.Open,     *)
(* gorm.Open, the DB method of gorm.DB, the option closures) are modelled   *)
(* by their Go signature: each returns either success or an error, chosen  *)
(* nondeterministically.  The handle gorm.Open returns together with an    *)
(* error is not fixed by db.go, so it is a nondeterministic choice between *)
(* nil and a handle whose initialisation did not complete.  The connection *)
(* string is opaque to db.go and only influences those outcomes, so it is  *)
(* not represented.                                                        *)
(*                                                                         *)
(* Strings are sequences of one-character strings so that strings.ToLower  *)
(* is computed character by character.                                     *)
(***************************************************************************)
EXTENDS Integers, Sequences, FiniteSets, TLC

\* ------------------------------------------------------------------ bounds
\* Number of Connect calls made during one run of the process.
MaxCalls == 2
\* Longest list of configuration options passed to one Connect call.
MaxOpts == 3
\* Case variants of a driver name: any subset of its first MaxUpper
\* characters upper-cased (plus the all-capitals spelling).
MaxUpper == 1

\* ------------------------------------------------------------------ strings
\* Letter pairs <<upper, lower>> of the characters the driver names use.
CasePairs ==
    { <<"P", "p">>, <<"O", "o">>, <<"S", "s">>, <<"T", "t">>, <<"G", "g">>,
      <<"R", "r">>, <<"E", "e">>, <<"Q", "q">>, <<"L", "l">>, <<"C", "c">>,
      <<"U", "u">>, <<"D", "d">>, <<"M", "m">>, <<"Y", "y">> }

ToLowerChar(c) ==
    IF \E p \in CasePairs : p[1] = c
    THEN (CHOOSE p \in CasePairs : p[1] = c)[2]
    ELSE c

ToUpperChar(c) ==
    IF \E p \in CasePairs : p[2] = c
    THEN (CHOOSE p \in CasePairs : p[2] = c)[1]
    ELSE c

\* strings.ToLower without the conversion: the driver name as passed.
ToLowerOmitted(s) == s

\* strings.ToLower(driver), db.go line 43.
ToLower(s) == [k \in 1..Len(s) |-> ToLowerChar(s[k])]

Postgres == <<"p", "o", "s", "t", "g", "r", "e", "s">>
Postgresql == <<"p", "o", "s", "t", "g", "r", "e", "s", "q", "l">>
CloudsqlPostgres ==
    <<"c", "l", "o", "u", "d", "s", "q", "l", "-",
      "p", "o", "s", "t", "g", "r", "e", "s">>
\* Names no case of the switch matches.
Mysql == <<"m", "y", "s", "q", "l">>
Postgre == <<"p", "o", "s", "t", "g", "r", "e">>
Empty == <<>>

BaseNames == {Postgres, Postgresql, CloudsqlPostgres, Mysql, Postgre, Empty}

UpperAt(s, mask) ==
    [k \in 1..Len(s) |-> IF k \in mask THEN ToUpperChar(s[k]) ELSE s[k]]

Min(a, b) == IF a < b THEN a ELSE b

\* The driver arguments a caller may pass: the base names in several
\* spellings that differ only in letter case.
\* Mixed-case spellings in common use: PostgreSQL, CloudSQL-Postgres, MySQL.
MixedSpellings ==
    { UpperAt(Postgresql, {1, 8, 9, 10}),
      UpperAt(CloudsqlPostgres, {1, 6, 7, 8, 10}),
      UpperAt(Mysql, {1, 3, 4, 5}) }

DriverArgs ==
    MixedSpellings \cup
    UNION { { UpperAt(b, m) : m \in (SUBSET (1..Min(MaxUpper, Len(b))))
                                      \cup {1..Len(b)} } : b \in BaseNames }

\* ------------------------------------------------------------------ values
Nil == 0

IAMAuthN == "WithIAMAuthN"
CredentialsFile == "WithCredentialsFile"

\* An option closure is represented by what it returns when applied.
OptionLists == UNION { [1..n -> {"ok", "fail"}] : n \in 0..MaxOpts }

NoErr == [kind |-> "nil", wraps |-> 0]
NoRet == [kind |-> "none", wraps |-> 0]
Err(kind, wraps) == [kind |-> kind, wraps |-> wraps]

VARIABLES
    db,             \* the package variable db: Nil or the id of a handle
    pc,             \* position of the process: idle, inside Connect, panicked
    calls,          \* number of Connect calls started; ids the handles
    rawDriver,      \* the driver argument as the caller passed it
    driver,         \* the local `driver` after line 43
    branch,         \* switch case taken by the current call
    opts,           \* the variadic opts of the current call
    idx,            \* position of the range loop over opts
    authOption,     \* the local authOption slice
    regOpts,        \* options handed to pgxv5.RegisterDriver (<<>>: not called)
    statSeen,       \* what os.Stat found in this call ("none": not called)
    steps,          \* library steps attempted by this call, with outcome
    applied,        \* indices of the options applied by this call
    ret,            \* what the current/last Connect call returned
    dbAtCall,       \* value of db when the current/last call began
    succ,           \* some Connect call has returned nil
    lastGet,        \* GetInstance since the last Connect: 0 none, else handle
    full            \* handles opened and with every supplied option applied

vars ==
    << db, pc, calls, rawDriver, driver, branch, opts, idx, authOption,
       regOpts, statSeen, steps, applied, ret, dbAtCall, succ, lastGet, full >>

Init ==
    /\ db = Nil
    /\ pc = "idle"
    /\ calls = 0
    /\ rawDriver = <<>>
    /\ driver = <<>>
    /\ branch = "none"
    /\ opts = <<>>
    /\ idx = 1
    /\ authOption = <<>>
    /\ regOpts = <<>>
    /\ statSeen = "none"
    /\ steps = <<>>
    /\ applied = <<>>
    /\ ret = NoRet
    /\ dbAtCall = Nil
    /\ succ = FALSE
    /\ lastGet = 0
    /\ full = {}

\* ------------------------------------------------------------------ Connect
\* A switch that lets an unmatched name fall into the direct case.
SwitchCaseNoDefault(d) ==
    IF d = CloudsqlPostgres THEN "proxy" ELSE "direct"

\* The case of `switch driver` that matches d (lines 44, 45, 73, 78).
SwitchCase(d) ==
    IF d = CloudsqlPostgres THEN "proxy"
    ELSE IF d \in {Postgresql, Postgres} THEN "direct"
    ELSE "unsupported"

\* The credentials option appended when the stat fails instead.
AuthOptionsInverted(statOk) ==
    IF ~statOk THEN <<IAMAuthN, CredentialsFile>> ELSE <<IAMAuthN>>

\* authOption after lines 47-54: IAM authentication, and the credentials
\* file when os.Stat(authFile) returned no error.
AuthOptions(statOk) ==
    IF statOk THEN <<IAMAuthN, CredentialsFile>> ELSE <<IAMAuthN>>

\* A failing step that aborts the process instead of returning.
ReturnErrPanics(kind, wraps) ==
    [pc |-> "panicked", ret |-> NoRet]

\* `return fmt.Errorf(...)` / `return errors.New(...)`: Connect ends and
\* hands the error to its caller.
ReturnErr(kind, wraps) ==
    [pc |-> "returned", ret |-> Err(kind, wraps)]

\* A store guarded so that a handle, once set, is kept.
OrmOpenStoreOnce(old, h) == IF old # Nil THEN old ELSE h

\* `db, err = gorm.Open(...)` (lines 69, 74): the package variable takes
\* whatever handle gorm.Open returned, before err is looked at.
OrmOpenStore(old, h) == h

\* A loop that goes on to the next option after a failure.
OptEndsLoopNever(result) == FALSE

\* `if err := opt(sdb); err != nil { return ... }` (lines 88-90).
OptEndsLoop(result) == result = "fail"

\* Lines 32-43: the call begins, cfg is built, driver is lower-cased.
ConnectCall ==
    /\ pc = "idle"
    /\ calls < MaxCalls
    /\ \E raw \in DriverArgs, os \in OptionLists :
        /\ rawDriver' = raw
        /\ driver' = ToLower(raw)
        /\ opts' = os
    /\ calls' = calls + 1
    /\ pc' = "switch"
    /\ ret' = NoRet
    /\ dbAtCall' = db
    /\ lastGet' = 0
    /\ UNCHANGED << db, branch, idx, authOption, regOpts, statSeen, steps,
                    applied, succ, full >>

\* Lines 44, 45, 73, 78-80: the switch; the default case returns at once.
Switch ==
    /\ pc = "switch"
    /\ branch' = SwitchCase(driver)
    /\ IF branch' = "proxy" THEN pc' = "stat" /\ ret' = ret
       ELSE IF branch' = "direct" THEN pc' = "ormdirect" /\ ret' = ret
       ELSE /\ pc' = ReturnErr("unsupported", 0).pc
            /\ ret' = ReturnErr("unsupported", 0).ret
    /\ UNCHANGED << db, calls, rawDriver, driver, opts, idx, authOption,
                    regOpts, statSeen, steps, applied, dbAtCall, succ,
                    lastGet, full >>

\* Lines 46-54: os.Stat on the fixed path decides the option set; the stat
\* returns no error ("exists") or an error ("missing"), as the file system
\* has it at this moment.
Stat ==
    /\ pc = "stat"
    /\ \E exists \in BOOLEAN :
        /\ statSeen' = IF exists THEN "exists" ELSE "missing"
        /\ authOption' = AuthOptions(exists)
    /\ pc' = "register"
    /\ UNCHANGED << db, calls, rawDriver, driver, branch, opts, idx, regOpts,
                    steps, applied, ret, dbAtCall, succ, lastGet, full >>

\* Lines 56-62: pgxv5.RegisterDriver("cloudsql-postgres", authOption...).
Register ==
    /\ pc = "register"
    /\ regOpts' = authOption
    /\ \E ok \in BOOLEAN :
        /\ steps' = Append(steps, [step |-> "register", ok |-> ok])
        /\ IF ok THEN pc' = "sqlopen" /\ ret' = ret
           ELSE /\ pc' = ReturnErr("register", 0).pc
                /\ ret' = ReturnErr("register", 0).ret
    /\ UNCHANGED << db, calls, rawDriver, driver, branch, opts, idx,
                    authOption, statSeen, applied, dbAtCall, succ, lastGet,
                    full >>

\* Lines 64-67: sql.Open(driver, dsn).
SqlOpen ==
    /\ pc = "sqlopen"
    /\ \E ok \in BOOLEAN :
        /\ steps' = Append(steps, [step |-> "sqlopen", ok |-> ok])
        /\ IF ok THEN pc' = "ormproxy" /\ ret' = ret
           ELSE /\ pc' = ReturnErr("sqlopen", 0).pc
                /\ ret' = ReturnErr("sqlopen", 0).ret
    /\ UNCHANGED << db, calls, rawDriver, driver, branch, opts, idx,
                    authOption, regOpts, statSeen, applied, dbAtCall, succ,
                    lastGet, full >>

\* `db, err = gorm.Open(...)` followed by `if err != nil { return ... }`.
\* On success the result is this call's new handle; with an error it is
\* Nil or this call's handle, not opened.  A handle opened by a call that
\* was given no options has nothing left to be applied.
OrmOpen ==
    \E ok \in BOOLEAN :
      \E h \in (IF ok THEN {calls} ELSE {Nil, calls}) :
        /\ steps' = Append(steps, [step |-> "ormopen", ok |-> ok])
        /\ db' = OrmOpenStore(db, h)
        /\ full' = IF ok /\ Len(opts) = 0 THEN full \cup {h} ELSE full
        /\ IF ok THEN pc' = "fetch" /\ ret' = ret
           ELSE /\ pc' = ReturnErr("ormopen", 0).pc
                /\ ret' = ReturnErr("ormopen", 0).ret
        /\ UNCHANGED << calls, rawDriver, driver, branch, opts, idx,
                        authOption, regOpts, statSeen, applied, dbAtCall,
                        succ, lastGet >>

\* Lines 69-72: the ORM open of the proxy case.
OrmOpenProxy ==
    /\ pc = "ormproxy"
    /\ OrmOpen

\* Lines 74-77: the ORM open of the direct case.
OrmOpenDirect ==
    /\ pc = "ormdirect"
    /\ OrmOpen

\* Lines 83-86: sdb, err := db.DB().
Fetch ==
    /\ pc = "fetch"
    /\ \E ok \in BOOLEAN :
        /\ steps' = Append(steps, [step |-> "fetch", ok |-> ok])
        /\ IF ok THEN pc' = "loop" /\ ret' = ret
           ELSE /\ pc' = ReturnErr("fetch", 0).pc
                /\ ret' = ReturnErr("fetch", 0).ret
    /\ UNCHANGED << db, calls, rawDriver, driver, branch, opts, idx,
                    authOption, regOpts, statSeen, applied, dbAtCall, succ,
                    lastGet, full >>

\* Lines 87-91: one iteration of the range loop, opt(sdb).  The handle of
\* this call has every option applied once the last one returned nil.
ApplyOpt ==
    /\ pc = "loop"
    /\ idx <= Len(opts)
    /\ applied' = Append(applied, idx)
    /\ IF OptEndsLoop(opts[idx])
       THEN /\ pc' = ReturnErr("opts", idx).pc
            /\ ret' = ReturnErr("opts", idx).ret
            /\ idx' = idx
       ELSE /\ pc' = "loop"
            /\ ret' = ret
            /\ idx' = idx + 1
    /\ full' = IF idx = Len(opts) /\ opts[idx] = "ok"
                  /\ \A k \in 1..(idx - 1) : opts[k] = "ok"
               THEN full \cup {calls} ELSE full
    /\ UNCHANGED << db, calls, rawDriver, driver, branch, opts, authOption,
                    regOpts, statSeen, steps, dbAtCall, succ, lastGet >>

\* Line 93: the loop is exhausted, return nil.
ReturnNil ==
    /\ pc = "loop"
    /\ idx > Len(opts)
    /\ pc' = "returned"
    /\ ret' = NoErr
    /\ succ' = TRUE
    /\ UNCHANGED << db, calls, rawDriver, driver, branch, opts, idx,
                    authOption, regOpts, statSeen, steps, applied, dbAtCall,
                    lastGet, full >>

\* Line 94: control is back in the caller with the result; the arguments
\* and locals of the call are gone.
Return ==
    /\ pc = "returned"
    /\ pc' = "idle"
    /\ rawDriver' = <<>>
    /\ driver' = <<>>
    /\ branch' = "none"
    /\ opts' = <<>>
    /\ idx' = 1
    /\ authOption' = <<>>
    /\ regOpts' = <<>>
    /\ statSeen' = "none"
    /\ steps' = <<>>
    /\ applied' = <<>>
    /\ UNCHANGED << db, calls, ret, dbAtCall, succ, lastGet, full >>

\* -------------------------------------------------------------- GetInstance
\* Lines 99-105: panic while db is nil, the handle otherwise.
GetInstance ==
    /\ pc = "idle"
    /\ IF db = Nil
       THEN pc' = "panicked" /\ lastGet' = lastGet
       ELSE pc' = pc /\ lastGet' = db
    /\ UNCHANGED << db, calls, rawDriver, driver, branch, opts, idx,
                    authOption, regOpts, statSeen, steps, applied, ret,
                    dbAtCall, succ, full >>

Next ==
    \/ ConnectCall
    \/ Switch
    \/ Stat
    \/ Register
    \/ SqlOpen
    \/ OrmOpenProxy
    \/ OrmOpenDirect
    \/ Fetch
    \/ ApplyOpt
    \/ ReturnNil
    \/ Return
    \/ GetInstance

Spec == Init /\ [][Next]_vars

\* ------------------------------------------------------------------ helpers
Range(f) == {f[k] : k \in DOMAIN f}

\* a and b are the same name up to the case of their letters.
CaseVariantOf(a, b) ==
    /\ Len(a) = Len(b)
    /\ \A k \in 1..Len(a) :
         \/ a[k] = b[k]
         \/ <<a[k], b[k]>> \in CasePairs
         \/ <<b[k], a[k]>> \in CasePairs

IsLowerCase(a) == \A k \in 1..Len(a) : ~ \E p \in CasePairs : p[1] = a[k]

\* A Connect call has passed its switch and has not yet handed control back.
PastSwitch == pc \notin {"idle", "panicked", "switch"}

\* The library steps of a call, in the order of the text of the case taken.
StepOrder(b) ==
    IF b = "proxy" THEN <<"register", "sqlopen", "ormopen", "fetch">>
    ELSE IF b = "direct" THEN <<"ormopen", "fetch">>
    ELSE <<>>

\* ------------------------------------------------------------------- claims

\* C1: a GetInstance call made while no Connect call has returned nil panics
\* and returns no handle, whatever step the earlier Connect calls failed at.
C1_GetInstancePanicsBeforeSuccess ==
    ~succ => lastGet = 0

\* C2: a Connect call that returns an error leaves the package variable db
\* exactly as it was when the call began.
C2_FailedConnectLeavesHandle ==
    (pc \in {"returned", "idle"} /\ ret.kind \notin {"nil", "none"})
        => db = dbAtCall

\* C3: in every reachable state db is nil or fully initialised: the ORM open
\* of the call that set it succeeded and every option supplied to that call
\* has been applied successfully.
C3_NilOrFullyInitialized ==
    db # Nil => db \in full

C5_OptionsInOrderShortCircuit ==
    /\ Len(applied) <= Len(opts)
    /\ \A j \in 1..Len(applied) : applied[j] = j
    /\ \A j \in 1..(Len(applied) - 1) : opts[j] = "ok"
    /\ (Len(applied) > 0 /\ opts[Len(applied)] = "fail")
          => (pc = "returned" /\ ret = Err("opts", Len(applied)))
    /\ (pc = "returned" /\ ret.kind = "opts")
          => (ret.wraps = Len(applied) /\ opts[ret.wraps] = "fail")
    /\ (pc = "returned" /\ ret.kind = "nil")
          => (Len(applied) = Len(opts) /\ \A k \in 1..Len(opts) : opts[k] = "ok")

\* C5 witness: [A succeeds, B fails, C succeeds]: A and B applied, B's error
\* returned, C never applied.
C5_Witness ==
    /\ pc = "returned"
    /\ opts = <<"ok", "fail", "ok">>
    /\ applied = <<1, 2>>
    /\ ret = Err("opts", 2)

\* C6: for a driver name whose lowercase form is none of the three supported
\* names, Connect returns the unsupported-driver error without registering,
\* opening or applying anything, db keeps its value, and a GetInstance that
\* follows still panics when db was nil before the call.
C6_UnsupportedDriverRejected ==
    /\ (PastSwitch
        /\ ToLower(rawDriver) \notin {Postgres, Postgresql, CloudsqlPostgres})
          => /\ pc = "returned"
             /\ ret = Err("unsupported", 0)
             /\ steps = <<>>
             /\ applied = <<>>
             /\ regOpts = <<>>
             /\ statSeen = "none"
             /\ db = dbAtCall
    /\ (pc \in {"idle", "panicked"} /\ ret.kind = "unsupported"
        /\ dbAtCall = Nil)
          => (db = Nil /\ lastGet = 0)

\* C6 witness: after an unsupported-driver Connect on a nil handle,
\* GetInstance was called and panicked.
C6_Witness ==
    /\ pc = "panicked"
    /\ ret.kind = "unsupported"
    /\ dbAtCall = Nil

C8_CaseInsensitiveSelection ==
    /\ pc \notin {"idle", "panicked"}
          => (IsLowerCase(driver) /\ CaseVariantOf(driver, rawDriver))
    /\ PastSwitch
          => /\ (CaseVariantOf(rawDriver, Postgres)
                 \/ CaseVariantOf(rawDriver, Postgresql)) <=> branch = "direct"
             /\ CaseVariantOf(rawDriver, CloudsqlPostgres) <=> branch = "proxy"
             /\ branch \in {"direct", "proxy", "unsupported"}

\* C8 witness: a name that is not all lowercase took the proxy branch and
\* the call succeeded.
C8_Witness ==
    /\ pc = "returned"
    /\ rawDriver # driver
    /\ branch = "proxy"
    /\ ret.kind = "nil"

\* C9 as stated: once db is non-nil no later operation makes it refer to a
\* different handle or to nil.
C9_CreatedOnce ==
    [][db # Nil => db' = db]_vars

\* C9 as amended: GetInstance never changes db and returns its current
\* value; db changes only in the ORM-open step of a Connect call, which
\* stores that call's result (a new handle whenever the open succeeds); two
\* GetInstance calls with no Connect call between them return the same
\* handle.
C9_ReplacedOnlyByOrmOpen ==
    /\ [](lastGet # 0 => lastGet = db)
    /\ [][ /\ db' # db => pc \in {"ormproxy", "ormdirect"}
           /\ (pc \in {"ormproxy", "ormdirect"} /\ pc' = "fetch")
                 => (db' = calls /\ db' # db)
           /\ lastGet' \notin {0, lastGet} => (lastGet' = db /\ db' = db)
         ]_vars

\* C9 witness: a later Connect replaced a non-nil handle and GetInstance
\* returned the new one.
C9_Witness ==
    /\ pc = "idle"
    /\ dbAtCall # Nil
    /\ db # Nil
    /\ db # dbAtCall
    /\ lastGet = db

\* C10: on the proxy path the options given to driver registration contain
\* the credentials-file option exactly when the stat succeeded, the IAM
\* option always; a missing file is no error (registration is attempted all
\* the same); the file is not consulted on the other paths.
C10_CredentialsOption ==
    /\ regOpts # <<>>
          => /\ IAMAuthN \in Range(regOpts)
             /\ CredentialsFile \in Range(regOpts) <=> statSeen = "exists"
    /\ (Len(steps) > 0 /\ steps[1].step = "register")
          => (regOpts # <<>> /\ statSeen # "none")
    /\ (statSeen # "none" /\ pc # "register")
          => (Len(steps) > 0 /\ steps[1].step = "register")
    /\ statSeen # "none" => branch = "proxy"
    /\ branch \in {"direct", "unsupported"}
          => (statSeen = "none" /\ regOpts = <<>>)

\* C10 witness: the file was missing, registration received the IAM option
\* alone, and Connect succeeded.
C10_Witness ==
    /\ pc = "returned"
    /\ statSeen = "missing"
    /\ regOpts = <<IAMAuthN>>
    /\ ret.kind = "nil"

====
